---- MODULE Spec2Model ----
(***************************************************************************)
(* Model of the multiple-shooting SQP solver (MultipleShootingSolver).     *)
(*                                                                         *)
(* States and inputs are scalars (nx = nu = 1).  A state x_i is an         *)
(* integer; an input u_i is a sequence of length 1, or the empty sequence  *)
(* for a vector of size 0.  Real arithmetic is kept exact: a step length   *)
(* alpha is alpha_decay^k and is stored as k, square roots are never       *)
(* evaluated but compared through their squares (sqrt is monotone on the   *)
(* non-negative reals), and rational settings are [num, den] pairs.        *)
(***************************************************************************)
EXTENDS Integers, Sequences, FiniteSets, TLC

\* ------------------------------------------------------------------ bounds
MaxThreads == 2
MaxRuns == 2
MaxSqpIteration == 2

Workers == 0 .. (MaxThreads - 1)

\* ------------------------------------------------------------ small helpers
RECURSIVE Pow(_, _)
Pow(b, k) == IF k = 0 THEN 1 ELSE b * Pow(b, k - 1)

Sq(v) == v * v

Abs(v) == IF v < 0 THEN -v ELSE v

RECURSIVE SumSeq(_)
SumSeq(s) == IF s = <<>> THEN 0 ELSE Head(s) + SumSeq(Tail(s))

\* squaredNorm() of a vector of size 0 or 1
squaredNorm(v) == IF Len(v) = 0 THEN 0 ELSE Sq(v[1])

\* std::vector::resize: keeps the leading elements, default-constructs the rest
Resize(s, n, dflt) == [i \in 1 .. n |-> IF i <= Len(s) THEN s[i] ELSE dflt]

\* ------------------------------------------------------------ configuration
\* The ranges of the arguments the solver is constructed with: the settings
\* (alpha_decay in (0,1), alpha_min > 0, gamma_c in (0,1), g_max > g_min > 0)
\* and, as the field constraintPtr, whether a constraint provider is passed.
SettingsRange ==
  [ nThreads : 0 .. MaxThreads,
    sqpIteration : 0 .. MaxSqpIteration,
    useFeedbackPolicy : BOOLEAN,
    constraintPtr : BOOLEAN,
    projectStateInputEqualityConstraints : BOOLEAN,
    alpha_decay : {[num |-> 1, den |-> 2]},
    alpha_min : {[num |-> 1, den |-> 4], [num |-> 1, den |-> 2]},
    gamma_c : {[num |-> 1, den |-> 2]},
    g_max : {2},
    g_min : {1},
    costTol : {4},
    deltaTol : {2} ]

\* The feedback policy is synthesised by the calling thread after the SQP
\* loop; it is explored with one worker.  So is the constraint provider, and
\* without the feedback policy.  With the projection a re-mapped input step
\* need not be even, and the line search is kept to the full step
\* (alpha_min = 1/2) so that alpha * du stays exact.
SettingsSet ==
  {s \in SettingsRange :
     /\ s.useFeedbackPolicy => s.nThreads = 1
     /\ s.constraintPtr => (s.nThreads = 1 /\ ~s.useFeedbackPolicy)
     /\ s.alpha_min.den = 2 <=> (s.constraintPtr /\ s.projectStateInputEqualityConstraints)}

\* the settings_ the constructor leaves: the projection is switched off when
\* there is no constraint provider
Construct(s) ==
  IF ~s.constraintPtr THEN [s EXCEPT !.projectStateInputEqualityConstraints = FALSE] ELSE s

\* Time grids handed out by timeDiscretizationWithEvents: one without and one
\* with an event (a PreEvent node followed by an Interior node at the same time).
Interior(t) == [time |-> t, event |-> "Interior"]

PreEvent(t) == [time |-> t, event |-> "PreEvent"]

Grids == { <<Interior(0), Interior(1), Interior(2)>>,
           <<Interior(0), PreEvent(1), Interior(1), Interior(2)>> }

\* a longer grid with two events
LongGrids == { <<Interior(0), PreEvent(1), Interior(1), PreEvent(2), Interior(2), Interior(3)>> }

\* The grids a solver is run on: the longer grid is explored with one worker
\* and no constraint provider.
GridsOf(s) == IF s.nThreads = 1 /\ ~s.constraintPtr THEN Grids \cup LongGrids ELSE Grids

\* initial states passed to run
InitStates == {0, 2}

\* primal steps the QP back-end may return for the stages after the first
StepSet == {-2, 0, 2}

\* Riccati feedback gains the QP back-end may return
GainSet == {-1, 0}

\* ---------------------------------------------------------- PerformanceIndex
ZeroPerformance ==
  [ merit |-> 0, totalCost |-> 0, stateEqConstraintISE |-> 0,
    stateInputEqConstraintISE |-> 0, inequalityConstraintISE |-> 0,
    inequalityConstraintPenalty |-> 0 ]

\* PerformanceIndex::operator+=
PerfAdd(a, b) ==
  [ merit |-> a.merit + b.merit,
    totalCost |-> a.totalCost + b.totalCost,
    stateEqConstraintISE |-> a.stateEqConstraintISE + b.stateEqConstraintISE,
    stateInputEqConstraintISE |-> a.stateInputEqConstraintISE + b.stateInputEqConstraintISE,
    inequalityConstraintISE |-> a.inequalityConstraintISE + b.inequalityConstraintISE,
    inequalityConstraintPenalty |-> a.inequalityConstraintPenalty + b.inequalityConstraintPenalty ]

\* ------------------------------------------------------ node transcription
\* The providers: scalar integrator x+ = x + u, stage cost x^2 + u^2,
\* identity jump map, terminal cost x^2, event cost x^2; the constraint
\* provider, where there is one, has the state-input equality x + u = 0 and
\* the event equality x = 0.  A provider argument is TRUE for a provider and
\* FALSE for nullptr.
computeIntermediatePerformance(constraintPtr, xi, xnext, ui) ==
  [ ZeroPerformance EXCEPT !.totalCost = Sq(xi) + squaredNorm(ui),
                           !.stateEqConstraintISE = Sq((xi + ui[1]) - xnext),
                           !.stateInputEqConstraintISE =
                              IF constraintPtr THEN Sq(xi + ui[1]) ELSE 0 ]

computeEventPerformance(costFunctionPtr, constraintPtr, xi, xnext) ==
  [ ZeroPerformance EXCEPT !.totalCost = IF costFunctionPtr THEN Sq(xi) ELSE 0,
                           !.stateEqConstraintISE =
                              Sq(xi - xnext) + (IF constraintPtr THEN Sq(xi) ELSE 0) ]

computeTerminalPerformance(xN) ==
  [ ZeroPerformance EXCEPT !.totalCost = Sq(xN) ]

\* default-constructed VectorFunctionLinearApproximation
EmptyApprox == [f |-> <<>>, dfdx |-> <<>>, dfdu |-> <<>>]

\* default-constructed ScalarFunctionQuadraticApproximation
EmptyCost == [f |-> 0, dfdx |-> <<>>, dfdu |-> <<>>]

\* With a constraint provider and the projection, du = Pf + Pdx * dx with
\* Pf = -(x + u), Pdx = -1 and no reduced input left (Pdu has no columns) is
\* substituted into the dynamics and the cost, and the equality is dropped
\* from the constraints; without the projection the equality is handed on.
setupIntermediateNode(constraintPtr, projection, xi, xnext, ui) ==
  IF constraintPtr /\ projection
    THEN [ dynamics |-> [f |-> <<((xi + ui[1]) - xnext) - (xi + ui[1])>>,
                         dfdx |-> <<0>>, dfdu |-> <<>>],
           cost |-> [f |-> 2 * Sq(xi), dfdx |-> <<4 * xi>>, dfdu |-> <<>>],
           constraints |-> EmptyApprox,
           constraintsProjection |-> [f |-> <<-(xi + ui[1])>>, dfdx |-> <<-1>>, dfdu |-> <<>>],
           performance |-> computeIntermediatePerformance(constraintPtr, xi, xnext, ui) ]
    ELSE [ dynamics |-> [f |-> <<(xi + ui[1]) - xnext>>, dfdx |-> <<1>>, dfdu |-> <<1>>],
           cost |-> [f |-> Sq(xi) + squaredNorm(ui), dfdx |-> <<2 * xi>>,
                     dfdu |-> <<2 * ui[1]>>],
           constraints |-> IF constraintPtr
                             THEN [f |-> <<xi + ui[1]>>, dfdx |-> <<1>>, dfdu |-> <<1>>]
                             ELSE EmptyApprox,
           constraintsProjection |-> EmptyApprox,
           performance |-> computeIntermediatePerformance(constraintPtr, xi, xnext, ui) ]

setupEventNode(costFunctionPtr, constraintPtr, xi, xnext) ==
  [ dynamics |-> [f |-> <<xi - xnext>>, dfdx |-> <<1>>, dfdu |-> <<>>],
    cost |-> IF costFunctionPtr
               THEN [f |-> Sq(xi), dfdx |-> <<2 * xi>>, dfdu |-> <<>>]
               ELSE [f |-> 0, dfdx |-> <<0>>, dfdu |-> <<>>],
    constraints |-> IF constraintPtr
                      THEN [f |-> <<xi>>, dfdx |-> <<1>>, dfdu |-> <<>>]
                      ELSE EmptyApprox,
    constraintsProjection |-> EmptyApprox,
    performance |-> computeEventPerformance(costFunctionPtr, constraintPtr, xi, xnext) ]

setupTerminalNode(xN) ==
  [ cost |-> [f |-> Sq(xN), dfdx |-> <<2 * xN>>, dfdu |-> <<>>],
    constraints |-> EmptyApprox,
    performance |-> computeTerminalPerformance(xN) ]

\* -------------------------------------------------------------------- state
VARIABLES
  settings_,              \* the settings the solver was constructed with
  crashed,                \* the process was terminated by undefined behaviour
  pc,                     \* where the calling thread is: "idle", "parallel", "qp"
  totalNumIterations_,
  performanceIndeces_,
  primalSolution_,
  dynamics_,
  cost_,
  constraints_,
  constraintsProjection_,
  run,                    \* locals of runImpl and takeStep
  pass,                   \* locals of setupQuadraticSubproblem / computePerformance
  wk,                     \* per worker: position in parallelTask and its locals
  hist                    \* observations of the run (history only, never read by the solver)

vars == << settings_, crashed, pc, totalNumIterations_, performanceIndeces_,
           primalSolution_, dynamics_, cost_, constraints_, constraintsProjection_,
           run, pass, wk, hist >>

members == << totalNumIterations_, performanceIndeces_, primalSolution_,
              dynamics_, cost_, constraints_, constraintsProjection_ >>

arrays == << dynamics_, cost_, constraints_, constraintsProjection_ >>

\* element i (0-based, as in the code) of a vector
At(s, i) == s[i + 1]

\* PrimalSolution()
EmptyPrimalSolution ==
  [ timeTrajectory_ |-> <<>>, stateTrajectory_ |-> <<>>, inputTrajectory_ |-> <<>>,
    controllerPtr_ |-> [type |-> "null", uff |-> <<>>, gain |-> <<>>] ]

NoRun ==
  [ time |-> <<>>, initState |-> 0, x |-> <<>>, u |-> <<>>, iter |-> 0,
    dx |-> <<>>, du |-> <<>>, k |-> 0, xNew |-> <<>>, uNew |-> <<>> ]

NoPass == [ kind |-> "none", timeIndex |-> 0, performance |-> <<>>, fault |-> -1 ]

\* the frame of a pass that an exception unwound while helpers still use it
DeadPass == [ kind |-> "dead", timeIndex |-> 0, performance |-> <<>>, fault |-> -1 ]

IdleWorker == [ pc |-> "idle", i |-> 0, workerPerformance |-> ZeroPerformance, stages |-> <<>> ]

NoTrial == [ valid |-> FALSE ]

NoHist ==
  [ runs |-> 0, result |-> "none", fetched |-> <<>>, writes |-> <<>>, accd |-> <<>>,
    nSetup |-> 0, nQP |-> 0, nLS |-> 0, nPrimal |-> 0, nEval |-> 0, converged |-> FALSE,
    primalAtStart |-> EmptyPrimalSolution, logAtStart |-> <<>>, trial |-> NoTrial,
    query |-> "none", solved |-> FALSE, escaped |-> "none",
    initState |-> 0, grid |-> <<>>, xInit |-> <<>>, uInit |-> <<>>,
    qpConstraints |-> "none", deltaUSol |-> <<>> ]

Init ==
  /\ settings_ \in {Construct(s) : s \in SettingsSet}
  /\ crashed = FALSE
  /\ pc = "idle"
  /\ totalNumIterations_ = 0
  /\ performanceIndeces_ = <<>>
  /\ primalSolution_ = EmptyPrimalSolution
  /\ dynamics_ = <<>>
  /\ cost_ = <<>>
  /\ constraints_ = <<>>
  /\ constraintsProjection_ = <<>>
  /\ run = NoRun
  /\ pass = NoPass
  /\ wk = [w \in Workers |-> IdleWorker]
  /\ hist = NoHist

\* ------------------------------------------------------------- runParallel
\* the calling thread is the last worker; the pool's helpers are 0 .. nThreads-2
CallerId == settings_.nThreads - 1

Helpers == 0 .. (settings_.nThreads - 2)

ActiveWorkers == 0 .. (settings_.nThreads - 1)

Running(w) == wk[w].pc \in {"fetch", "work"}

\* problem horizon of the pass in flight
HorizonN == Len(run.time) - 1

\* the trajectories the pass was called with
PassX == IF pass.kind = "setup" THEN run.x ELSE run.xNew

PassU == IF pass.kind = "setup" THEN run.u ELSE run.uNew

\* the stage at which the providers throw during a pass (-1: nowhere)
FaultSet(N) == {-1, 1}

\* a counter whose increment is lost: the next fetch obtains the same value
FetchAddLostUpdate(counter) == [ret |-> counter, new |-> counter]

\* std::atomic_int post-increment: the value obtained and the value left behind
FetchAdd(counter) == [ret |-> counter, new |-> counter + 1]

\* a terminal test that no index passes
TerminalClaimedNever(i, N) == FALSE

\* if (i == N): the worker that left the loop with i == N takes the terminal node
TerminalClaimed(i, N) == i = N

\* the cost and constraint arguments of setupEventNode and
\* computeEventPerformance: nullptr
EventCostArgument == FALSE

EventConstraintArgument == FALSE

\* VectorFunctionLinearApproximation::Zero(0, x[i].size(), 0)
ZeroProjection == [f |-> <<>>, dfdx |-> <<>>, dfdu |-> <<>>]

\* what the body of parallelTask computes for stage i
StageResult(i) ==
  IF i = HorizonN
    THEN setupTerminalNode(At(PassX, i))
    ELSE IF At(run.time, i).event = "PreEvent"
           THEN [ setupEventNode(EventCostArgument, EventConstraintArgument,
                                 At(PassX, i), At(PassX, i + 1))
                    EXCEPT !.constraintsProjection = ZeroProjection ]
           ELSE setupIntermediateNode(settings_.constraintPtr,
                                      settings_.projectStateInputEqualityConstraints,
                                      At(PassX, i), At(PassX, i + 1), At(PassU, i))

\* the index of the slot into which stage i's result is stored
SlotOf(i) == i

\* resize of the four arrays and launch of the tasks: the state in which
\* runParallel has queued the helpers' tasks and starts its own
BeginPass(kind, N, fault) ==
  /\ pass' = [ kind |-> kind, timeIndex |-> 0,
               performance |-> [w \in ActiveWorkers |-> ZeroPerformance],
               fault |-> fault ]
  /\ wk' = [w \in Workers |->
              IF w \in ActiveWorkers THEN [IdleWorker EXCEPT !.pc = "fetch"] ELSE IdleWorker]
  /\ pc' = "parallel"

FreshCounts(N) == [i \in 0 .. N |-> 0]

\* performance[workerId] += workerPerformance, recorded per stage
Accumulated(accd, stages) ==
  [i \in DOMAIN accd |->
     accd[i] + Cardinality({j \in 1 .. Len(stages) : stages[j] = i})]

\* The task of a worker is cut at its accesses to the shared counter: a step
\* is one post-increment of timeIndex together with the worker-local code
\* that precedes it.  The closing accumulation into performance[workerId]
\* touches no other worker's data and belongs to the step that leaves the loop.

\* int i = timeIndex++;  (first fetch of the task)
Fetch(w) ==
  /\ ~crashed /\ pc = "parallel" /\ w \in ActiveWorkers /\ wk[w].pc = "fetch"
  /\ LET fa == FetchAdd(pass.timeIndex)
         i == fa.ret
     IN IF i < HorizonN \/ TerminalClaimed(i, HorizonN)
          THEN /\ pass' = [pass EXCEPT !.timeIndex = fa.new]
               /\ wk' = [wk EXCEPT ![w].i = i, ![w].pc = "work"]
               /\ hist' = [hist EXCEPT !.fetched[i] = @ + 1]
          ELSE /\ pass' = [pass EXCEPT !.timeIndex = fa.new,
                                       !.performance[w] = PerfAdd(@, wk[w].workerPerformance)]
               /\ wk' = [wk EXCEPT ![w].i = i, ![w].pc = "done"]
               /\ hist' = hist
  /\ UNCHANGED << settings_, crashed, pc, members, run >>

\* the four slot writes of a stage (two at the terminal stage)
WriteSlots(i, result) ==
  LET s == SlotOf(i) + 1
  IN /\ cost_' = [cost_ EXCEPT ![s] = result.cost]
     /\ constraints_' = [constraints_ EXCEPT ![s] = result.constraints]
     /\ IF i < HorizonN
          THEN /\ dynamics_' = [dynamics_ EXCEPT ![s] = result.dynamics]
               /\ constraintsProjection_' =
                    [constraintsProjection_ EXCEPT ![s] = result.constraintsProjection]
          ELSE UNCHANGED << dynamics_, constraintsProjection_ >>

\* the body of the while loop for stage i < N followed by i = timeIndex++, or
\* the terminal stage (i == N); on leaving the loop the worker accumulates
Work(w) ==
  /\ ~crashed /\ pc = "parallel" /\ w \in ActiveWorkers /\ wk[w].pc = "work"
  /\ wk[w].i # pass.fault
  /\ LET i == wk[w].i
         N == HorizonN
         result == StageResult(i)
         perf == PerfAdd(wk[w].workerPerformance, result.performance)
         stages == Append(wk[w].stages, i)
         fa == FetchAdd(pass.timeIndex)
         h == IF pass.kind = "setup"
                THEN [hist EXCEPT !.writes[SlotOf(i)] = @ + 1] ELSE hist
     IN /\ IF pass.kind = "setup" THEN WriteSlots(i, result) ELSE UNCHANGED arrays
        /\ IF i < N /\ (fa.ret < N \/ TerminalClaimed(fa.ret, N))
             THEN /\ wk' = [wk EXCEPT ![w].workerPerformance = perf, ![w].stages = stages,
                                      ![w].i = fa.ret]
                  /\ pass' = [pass EXCEPT !.timeIndex = fa.new]
                  /\ hist' = [h EXCEPT !.fetched[fa.ret] = @ + 1]
             ELSE /\ wk' = [wk EXCEPT ![w].workerPerformance = perf, ![w].stages = stages,
                                      ![w].i = IF i < N THEN fa.ret ELSE i,
                                      ![w].pc = "done"]
                  /\ pass' = [pass EXCEPT !.timeIndex = IF i < N THEN fa.new ELSE @,
                                          !.performance[w] = PerfAdd(@, perf)]
                  /\ hist' = [h EXCEPT !.accd = Accumulated(h.accd, stages)]
  /\ UNCHANGED << settings_, crashed, pc, totalNumIterations_, performanceIndeces_,
                  primalSolution_, run >>

\* the provider throws while the worker evaluates stage i: the task ends
\* without accumulating
WorkThrow(w) ==
  /\ ~crashed /\ pc = "parallel" /\ w \in ActiveWorkers /\ wk[w].pc = "work"
  /\ wk[w].i = pass.fault
  /\ wk' = [wk EXCEPT ![w].pc = "threw"]
  /\ UNCHANGED << settings_, crashed, pc, members, run, pass, hist >>

\* a return that waits for the calling thread's own task only
AllDoneCallerOnly == wk[CallerId].pc = "done"

\* every task of the pass has returned normally
AllDone == \A w \in ActiveWorkers : wk[w].pc = "done"

\* the first future whose get() rethrows: every earlier helper has finished
RethrowingHelper(j) ==
  /\ j \in Helpers
  /\ wk[j].pc = "threw"
  /\ \A h \in Helpers : h < j => wk[h].pc = "done"

\* an exception leaves runParallel, and with it runImpl: the frames of the
\* pass are unwound; helpers that have not finished keep running
Abort(h, what) ==
  /\ pc' = "idle"
  /\ run' = NoRun
  /\ pass' = IF \E w \in Helpers : Running(w) THEN DeadPass ELSE NoPass
  /\ wk' = [w \in Workers |->
              IF w \in Helpers /\ Running(w) THEN [IdleWorker EXCEPT !.pc = "work"]
              ELSE IdleWorker]
  /\ hist' = [h EXCEPT !.result = "error", !.escaped = what, !.deltaUSol = <<>>]

\* taskFunction(workerId) throws in the calling thread
ThrowFromCaller ==
  /\ ~crashed /\ pc = "parallel" /\ wk[CallerId].pc = "threw"
  /\ Abort(hist, pass.kind)
  /\ UNCHANGED << settings_, crashed, members >>

\* fut.get() rethrows the exception a helper's task ended with
ThrowFromFuture ==
  /\ ~crashed /\ pc = "parallel" /\ wk[CallerId].pc = "done"
  /\ \E j \in Helpers : RethrowingHelper(j)
  /\ Abort(hist, pass.kind)
  /\ UNCHANGED << settings_, crashed, members >>

\* A helper of an unwound pass goes on: it reads timeIndex, N, time, x, u and
\* writes performance through dangling references.  The outcomes: it ends
\* without visible effect, it stores a garbage result (here a vector of a
\* size no stage produces) into a slot of the member arrays, or the process
\* dies.
Garbage == [f |-> <<0, 0>>, dfdx |-> <<>>, dfdu |-> <<>>]

StaleEnd(w) ==
  /\ ~crashed /\ pass.kind = "dead" /\ w \in Helpers /\ Running(w)
  /\ wk' = [wk EXCEPT ![w] = IdleWorker]
  /\ pass' = IF \E v \in Helpers \ {w} : Running(v) THEN pass ELSE NoPass
  /\ UNCHANGED << settings_, crashed, pc, members, run, hist >>

StaleClobber(w) ==
  /\ ~crashed /\ pass.kind = "dead" /\ w \in Helpers /\ Running(w)
  /\ \E s \in DOMAIN dynamics_ : dynamics_' = [dynamics_ EXCEPT ![s] = Garbage]
  /\ wk' = [wk EXCEPT ![w] = IdleWorker]
  /\ pass' = IF \E v \in Helpers \ {w} : Running(v) THEN pass ELSE NoPass
  /\ UNCHANGED << settings_, crashed, pc, totalNumIterations_, performanceIndeces_,
                  primalSolution_, cost_, constraints_, constraintsProjection_, run, hist >>

StaleCrash(w) ==
  /\ ~crashed /\ pass.kind = "dead" /\ w \in Helpers /\ Running(w)
  /\ crashed' = TRUE
  /\ UNCHANGED << settings_, pc, members, run, pass, wk, hist >>

\* ------------------------------------------------- trajectories and steps
\* alpha = alpha_decay^k
AlphaNum(k) == Pow(settings_.alpha_decay.num, k)

AlphaDen(k) == Pow(settings_.alpha_decay.den, k)

\* alpha * d (exact: the steps of StepSet are multiples of the denominators used)
Scaled(d, k) == (d * AlphaNum(k)) \div AlphaDen(k)

\* a loop condition that also admits alpha = alpha_min
AboveAlphaMinInclusive(k) ==
  AlphaNum(k) * settings_.alpha_min.den >= settings_.alpha_min.num * AlphaDen(k)

\* alpha > alpha_min
AboveAlphaMin(k) == AlphaNum(k) * settings_.alpha_min.den > settings_.alpha_min.num * AlphaDen(k)

\* trajectoryNorm(v)^2
trajectoryNormSq(v) == SumSeq([i \in 1 .. Len(v) |-> squaredNorm(v[i])])

\* the seed input of the operating-trajectories provider
OperatingInput == <<0>>

\* the sample LinearInterpolation / the controller uses at time t: the last
\* node of the stored trajectory that is not later than t
InterpIndex(t, T) ==
  LET below == {j \in 1 .. Len(T) : T[j] <= t}
  IN IF below = {} THEN 1 ELSE CHOOSE j \in below : \A m \in below : m <= j

Interpolate(t, T, data) == data[InterpIndex(t, T)]

\* controllerPtr_->computeInput(t, x)
computeInput(ctrl, T, t, xv) ==
  IF ctrl.type = "linear"
    THEN << Interpolate(t, T, ctrl.uff)[1] + Interpolate(t, T, ctrl.gain) * xv >>
    ELSE Interpolate(t, T, ctrl.uff)

\* a warm start that interpolates the first node as well
initializeStateTrajectoryInterpolatesAll(initState, time) ==
  IF totalNumIterations_ = 0
    THEN [i \in 1 .. Len(time) |-> initState]
    ELSE [i \in 1 .. Len(time) |->
            Interpolate(time[i].time, primalSolution_.timeTrajectory_,
                        primalSolution_.stateTrajectory_)]

initializeStateTrajectory(initState, time) ==
  IF totalNumIterations_ = 0
    THEN [i \in 1 .. Len(time) |-> initState]
    ELSE [i \in 1 .. Len(time) |->
            IF i = 1 THEN initState
            ELSE Interpolate(time[i].time, primalSolution_.timeTrajectory_,
                             primalSolution_.stateTrajectory_)]

initializeInputTrajectory(time, stateTrajectory) ==
  LET N == Len(time) - 1
      interpolateTill == IF totalNumIterations_ > 0
                           THEN primalSolution_.timeTrajectory_[Len(primalSolution_.timeTrajectory_)]
                           ELSE time[1].time
  IN [i \in 1 .. N |->
        IF time[i].time < interpolateTill
          THEN computeInput(primalSolution_.controllerPtr_, primalSolution_.timeTrajectory_,
                            time[i].time, stateTrajectory[i])
          ELSE OperatingInput]

\* the trial trajectories of takeStep at alpha = alpha_decay^k; uNew[i] stays
\* the default-constructed (empty) vector where du[i] is empty
TrialX(k) == [i \in 1 .. Len(run.x) |-> run.x[i] + Scaled(run.dx[i], k)]

TrialU(k) ==
  [i \in 1 .. Len(run.u) |->
     IF Len(run.du[i]) > 0 THEN << run.u[i][1] + Scaled(run.du[i][1], k) >> ELSE <<>>]

\* std::accumulate over the per-worker accumulators, after the init-state
\* defect was added to the first one; merit = totalCost + penalty
\* an accumulation that starts from a fresh PerformanceIndex and drops front()
RECURSIVE SumPerformanceSkipFront(_, _)
SumPerformanceSkipFront(perf, n) ==
  IF n = 0 THEN ZeroPerformance ELSE PerfAdd(SumPerformanceSkipFront(perf, n - 1), perf[n])

RECURSIVE SumPerformance(_, _)
SumPerformance(perf, n) ==
  IF n = 0 THEN perf[0] ELSE PerfAdd(SumPerformance(perf, n - 1), perf[n])

\* a reduction that leaves the merit of the first accumulator in place
ReducePerformanceStaleMerit(perf, initState, x0) ==
  LET first == [perf[0] EXCEPT !.stateEqConstraintISE = @ + Sq(initState - x0)]
      withInit == [perf EXCEPT ![0] = first]
  IN SumPerformance(withInit, settings_.nThreads - 1)

ReducePerformance(perf, initState, x0) ==
  LET first == [perf[0] EXCEPT !.stateEqConstraintISE = @ + Sq(initState - x0)]
      withInit == [perf EXCEPT ![0] = first]
      total == SumPerformance(withInit, settings_.nThreads - 1)
  IN [total EXCEPT !.merit = total.totalCost + total.inequalityConstraintPenalty]

\* constraintViolation(performance)^2
constraintViolationSq(performance) ==
  performance.stateEqConstraintISE + performance.stateInputEqConstraintISE
    + performance.inequalityConstraintISE

\* a filter without the upper threshold
ViolationAboveGMaxIgnored(vSq) == FALSE

\* newConstraintViolation > g_max
ViolationAboveGMax(vSq) == vSq > Sq(settings_.g_max)

\* the low-violation branch taken at the threshold itself as well
ViolationBelowGMinInclusive(vSq) == vSq <= Sq(settings_.g_min)

\* newConstraintViolation < g_min
ViolationBelowGMin(vSq) == vSq < Sq(settings_.g_min)

\* merit' < merit - gamma_c * sqrt(bSq)
MeritDecrease(meritNew, merit, bSq) ==
  LET d == merit - meritNew
  IN d > 0 /\ Sq(settings_.gamma_c.num) * bSq < Sq(settings_.gamma_c.den) * Sq(d)

\* sqrt(vSq) < (1 - gamma_c) * sqrt(bSq)
ViolationDecrease(vSq, bSq) ==
  Sq(settings_.gamma_c.den) * vSq < Sq(settings_.gamma_c.den - settings_.gamma_c.num) * bSq

\* an acceptance test that takes a merit equal to the baseline's as a decrease
stepAcceptedNonStrict(performanceNew, baseline) ==
  LET newSq == constraintViolationSq(performanceNew)
      baseSq == constraintViolationSq(baseline)
  IN IF ViolationAboveGMax(newSq)
       THEN FALSE
       ELSE IF ViolationBelowGMin(newSq)
              THEN performanceNew.merit <= baseline.merit
              ELSE \/ MeritDecrease(performanceNew.merit, baseline.merit, baseSq)
                   \/ ViolationDecrease(newSq, baseSq)

stepAccepted(performanceNew, baseline) ==
  LET newSq == constraintViolationSq(performanceNew)
      baseSq == constraintViolationSq(baseline)
  IN IF ViolationAboveGMax(newSq)
       THEN FALSE
       ELSE IF ViolationBelowGMin(newSq)
              THEN performanceNew.merit < baseline.merit
              ELSE \/ MeritDecrease(performanceNew.merit, baseline.merit, baseSq)
                   \/ ViolationDecrease(newSq, baseSq)

\* alpha * deltaUnorm < deltaTol && alpha * deltaXnorm < deltaTol
stepSizeBelowTol(k, dx, du) ==
  /\ Sq(AlphaNum(k)) * trajectoryNormSq(du) < Sq(settings_.deltaTol) * Sq(AlphaDen(k))
  /\ Sq(AlphaNum(k)) * trajectoryNormSq([i \in 1 .. Len(dx) |-> <<dx[i]>>])
       < Sq(settings_.deltaTol) * Sq(AlphaDen(k))

\* an improvement test on the merit alone
improvementBelowTolMeritOnly(performanceNew, baseline) ==
  Abs(baseline.merit - performanceNew.merit) < settings_.costTol

\* std::abs(baseline.merit - performanceNew.merit) < costTol
\*   && newConstraintViolation < g_min
improvementBelowTol(performanceNew, baseline) ==
  /\ Abs(baseline.merit - performanceNew.merit) < settings_.costTol
  /\ ViolationBelowGMin(constraintViolationSq(performanceNew))

\* a step length that is never shortened
DecayStuck(k) == k

\* alpha *= alpha_decay
Decay(k) == k + 1

\* --------------------------------------------------------- setPrimalSolution
\* inputTrajectory_[i] = inputTrajectory_[i - 1] at every PreEvent node i > 0,
\* in increasing order of i
\* inputs left as takeStep handed them over, without the correction
CorrectPreEventsSkipped(inputs, time, i) == inputs

RECURSIVE CorrectPreEvents(_, _, _)
CorrectPreEvents(inputs, time, i) ==
  IF i > Len(time) THEN inputs
  ELSE CorrectPreEvents(
         IF time[i].event = "PreEvent" /\ i > 1
           THEN [inputs EXCEPT ![i] = inputs[i - 1]] ELSE inputs,
         time, i + 1)

\* an input trajectory left without the repeated last input
RepeatLastInputOmitted(u) == u

\* u.push_back(u.back())
RepeatLastInput(u) == Append(u, u[Len(u)])

\* hpipmInterface_.getRiccatiFeedback: one gain per stage 0..N-1
getRiccatiFeedback(K, N) == [i \in 1 .. N |-> K]

\* a controller left one entry short of the time trajectory
CopyLastEntryOmitted(entries) == entries

\* uff.push_back(uff.back()); controllerGain.push_back(controllerGain.back())
CopyLastEntry(entries) == Append(entries, entries[Len(entries)])

\* the gain of stage j (1-based): the Riccati gain, mapped through the
\* constraint projection where there is one
StageGain(KMatrices, j) ==
  IF Len(constraintsProjection_[j].f) > 0
    THEN constraintsProjection_[j].dfdx[1] + constraintsProjection_[j].dfdu[1] * KMatrices[j]
    ELSE KMatrices[j]

\* the loop over the stages j = 1 .. N (1-based) that builds uff and
\* controllerGain, followed by the copy of the last entry
RECURSIVE FeedbackEntries(_, _, _, _, _, _, _)
FeedbackEntries(time, x, u, KMatrices, j, uff, controllerGain) ==
  IF j >= Len(time)
    THEN [uff |-> CopyLastEntry(uff), gain |-> CopyLastEntry(controllerGain)]
    ELSE IF time[j].event = "PreEvent" /\ uff # <<>>
           THEN FeedbackEntries(time, x, u, KMatrices, j + 1,
                                Append(uff, uff[Len(uff)]),
                                Append(controllerGain, controllerGain[Len(controllerGain)]))
           ELSE LET g == StageGain(KMatrices, j)
                IN FeedbackEntries(time, x, u, KMatrices, j + 1,
                                   Append(uff, << u[j][1] - g * x[j] >>),
                                   Append(controllerGain, g))

setPrimalSolution(time, x, u, K) ==
  LET inputs == CorrectPreEvents(RepeatLastInput(u), time, 1)
      times == [i \in 1 .. Len(time) |-> time[i].time]
      fb == FeedbackEntries(time, x, u, getRiccatiFeedback(K, Len(time) - 1), 1, <<>>, <<>>)
  IN [ timeTrajectory_ |-> times,
       stateTrajectory_ |-> x,
       inputTrajectory_ |-> inputs,
       controllerPtr_ |->
         IF settings_.useFeedbackPolicy
           THEN [type |-> "linear", uff |-> fb.uff, gain |-> fb.gain]
           ELSE [type |-> "feedforward", uff |-> inputs, gain |-> <<>>] ]

\* ------------------------------------------------------------------ runImpl
\* the client calls run again once the helpers of an aborted pass have left
\* their task
NoStaleHelper == \A w \in Workers : ~Running(w)

\* the clones of the providers the constructor made, one set per worker
ProviderClones == IF settings_.nThreads > 0 THEN settings_.nThreads ELSE 0

\* the resources parallelTask takes for the calling thread's workerId exist
WorkerResourcesExist == CallerId \in 0 .. (ProviderClones - 1)

\* the previous solution the warm start reads is there
WarmStartDefined == totalNumIterations_ = 0 \/ Len(primalSolution_.timeTrajectory_) > 0

PassHist(h, N) ==
  [h EXCEPT !.fetched = FreshCounts(N), !.writes = FreshCounts(N), !.accd = FreshCounts(N)]

\* dynamics_.resize(N); cost_.resize(N + 1); constraints_.resize(N + 1);
\* constraintsProjection_.resize(N);
ResizeArrays(N) ==
  /\ dynamics_' = Resize(dynamics_, N, EmptyApprox)
  /\ cost_' = Resize(cost_, N + 1, EmptyCost)
  /\ constraints_' = Resize(constraints_, N + 1, EmptyApprox)
  /\ constraintsProjection_' = Resize(constraintsProjection_, N, EmptyApprox)

\* iter < settings_.sqpIteration at iter = 0: the loop body runs at least once
LoopEntered == 0 < settings_.sqpIteration

\* what setPrimalSolution reads for the feedback policy has been produced:
\* dynamics_[0], cost_[0] and constraintsProjection_[i] exist and the QP
\* back-end holds a solution
FeedbackInputsExist == Len(dynamics_) > 0 /\ Len(cost_) > 0 /\ Len(constraintsProjection_) > 0

\* run of a solver with sqpIteration = 0: the loop body never runs, and
\* setPrimalSolution follows the initialization at once.  Without the
\* feedback policy it stores the initial guess.  With it, it indexes the
\* empty dynamics_, cost_ and constraintsProjection_ and asks the QP back-end
\* for the feedback of a problem it never solved.  The outcomes of that: the
\* process dies, or the call ends with an error.
RunNoIteration(initState, time) ==
  /\ ~crashed /\ pc = "idle" /\ NoStaleHelper /\ hist.runs < MaxRuns
  /\ ~LoopEntered /\ WarmStartDefined
  /\ LET x == initializeStateTrajectory(initState, time)
         u == initializeInputTrajectory(time, x)
         h == [NoHist EXCEPT !.runs = hist.runs + 1, !.solved = TRUE,
                             !.primalAtStart = primalSolution_,
                             !.logAtStart = performanceIndeces_,
                             !.initState = initState, !.grid = time,
                             !.xInit = x, !.uInit = u]
     IN IF settings_.useFeedbackPolicy /\ ~FeedbackInputsExist
          THEN \/ /\ crashed' = TRUE
                  /\ hist' = [hist EXCEPT !.runs = @ + 1]
                  /\ UNCHANGED << performanceIndeces_, primalSolution_ >>
               \/ /\ crashed' = FALSE
                  /\ performanceIndeces_' = <<>>
                  /\ primalSolution_' = EmptyPrimalSolution
                  /\ hist' = [h EXCEPT !.result = "error", !.escaped = "noiteration"]
          ELSE /\ crashed' = FALSE
               /\ performanceIndeces_' = <<>>
               /\ primalSolution_' = setPrimalSolution(time, x, u, 0)
               /\ hist' = [h EXCEPT !.result = "ok", !.nPrimal = 1]
  /\ UNCHANGED << settings_, pc, totalNumIterations_, arrays, run, pass, wk >>

\* run(initTime, initState, finalTime): discretization, initialization of x
\* and u, clearing of the log, and entry into the first setupQuadraticSubproblem
Run(initState, time) ==
  /\ ~crashed /\ pc = "idle" /\ NoStaleHelper /\ hist.runs < MaxRuns
  /\ LoopEntered /\ WarmStartDefined /\ WorkerResourcesExist
  /\ LET x == initializeStateTrajectory(initState, time)
         u == initializeInputTrajectory(time, x)
         N == Len(time) - 1
     IN /\ run' = [NoRun EXCEPT !.time = time, !.initState = initState, !.x = x, !.u = u]
        /\ performanceIndeces_' = <<>>
        /\ ResizeArrays(N)
        /\ \E fault \in FaultSet(N) : BeginPass("setup", N, fault)
        /\ hist' = PassHist([NoHist EXCEPT !.runs = hist.runs + 1, !.solved = TRUE,
                                           !.primalAtStart = primalSolution_,
                                           !.logAtStart = performanceIndeces_,
                                           !.initState = initState, !.grid = time,
                                           !.xInit = x, !.uInit = u,
                                           !.nSetup = 1], N)
  /\ UNCHANGED << settings_, crashed, totalNumIterations_, primalSolution_ >>

\* run of a solver constructed with nThreads = 0: the calling thread is worker
\* -1, parallelTask dereferences systemDynamicsPtr_[-1] of an empty vector and
\* indexes an empty performance vector.  The outcomes: the process dies, or
\* the call ends with an error.
RunNoWorker(initState, time) ==
  /\ ~crashed /\ pc = "idle" /\ NoStaleHelper /\ hist.runs < MaxRuns
  /\ LoopEntered /\ ~WorkerResourcesExist
  /\ \/ /\ crashed' = TRUE
        /\ hist' = [hist EXCEPT !.runs = @ + 1]
        /\ UNCHANGED << performanceIndeces_, arrays >>
     \/ /\ crashed' = FALSE
        /\ performanceIndeces_' = <<>>
        /\ ResizeArrays(Len(time) - 1)
        /\ hist' = [NoHist EXCEPT !.runs = hist.runs + 1, !.solved = TRUE,
                                  !.primalAtStart = primalSolution_,
                                  !.logAtStart = performanceIndeces_,
                                  !.initState = initState, !.grid = time,
                                  !.xInit = initializeStateTrajectory(initState, time),
                                  !.uInit = initializeInputTrajectory(
                                              time, initializeStateTrajectory(initState, time)),
                                  !.result = "error", !.escaped = "noworker"]
  /\ UNCHANGED << settings_, pc, totalNumIterations_, primalSolution_, run, pass, wk >>

\* run after an aborted run left totalNumIterations_ > 0 and no solution: the
\* warm start calls back() on an empty vector and dereferences a null
\* controller.  The outcomes: the process dies, or the call ends with an error.
RunUndefined(initState, time) ==
  /\ ~crashed /\ pc = "idle" /\ NoStaleHelper /\ hist.runs < MaxRuns
  /\ ~WarmStartDefined
  /\ \/ /\ crashed' = TRUE
        /\ hist' = [hist EXCEPT !.runs = @ + 1]
     \/ /\ crashed' = FALSE
        /\ hist' = [NoHist EXCEPT !.runs = hist.runs + 1, !.solved = TRUE,
                                  !.primalAtStart = primalSolution_,
                                  !.logAtStart = performanceIndeces_,
                                  !.initState = initState, !.grid = time,
                                  !.result = "error", !.escaped = "warmstart"]
  /\ UNCHANGED << settings_, pc, members, run, pass, wk >>

\* a log that holds the entry of the latest iteration only
SetupReturnKeepsLastOnly ==
  /\ ~crashed /\ pc = "parallel" /\ pass.kind = "setup" /\ AllDone
  /\ performanceIndeces_' =
       << ReducePerformance(pass.performance, run.initState, run.x[1]) >>
  /\ pc' = "qp"
  /\ pass' = NoPass
  /\ wk' = [w \in Workers |-> IdleWorker]
  /\ UNCHANGED << settings_, crashed, totalNumIterations_, primalSolution_, arrays, run, hist >>

\* setupQuadraticSubproblem returns; performanceIndeces_.emplace_back(...)
SetupReturn ==
  /\ ~crashed /\ pc = "parallel" /\ pass.kind = "setup" /\ AllDone
  /\ performanceIndeces_' =
       Append(performanceIndeces_, ReducePerformance(pass.performance, run.initState, run.x[1]))
  /\ pc' = "qp"
  /\ pass' = NoPass
  /\ wk' = [w \in Workers |-> IdleWorker]
  /\ UNCHANGED << settings_, crashed, totalNumIterations_, primalSolution_, arrays, run, hist >>

\* the step the QP back-end returns: delta_x0 at the first node, sx at the
\* others, su at every stage with an input and the empty vector at events
QPStepX(delta_x0, sx) == [i \in 1 .. Len(run.x) |-> IF i = 1 THEN delta_x0 ELSE sx]

\* the input step has the size of the stage's input in the QP: the number
\* of columns of dynamics_[i].dfdu
QPStepU(su) ==
  [i \in 1 .. Len(run.u) |-> IF Len(dynamics_[i].dfdu) = 0 THEN <<>> ELSE <<su>>]

\* a solve that is handed the constraints whenever there is a provider
QPConstraintArgumentIgnoresProjection ==
  IF settings_.constraintPtr THEN "constraints" ELSE "null"

\* the constraint argument of hpipmInterface_.resize and solve
QPConstraintArgument ==
  IF settings_.constraintPtr /\ ~settings_.projectStateInputEqualityConstraints
    THEN "constraints" ELSE "null"

\* matrix-vector product of a one-row matrix with a vector
RowTimes(row, v) == SumSeq([j \in 1 .. Len(row) |-> row[j] * v[j]])

\* a re-mapping that is never applied
RemapAppliesNever(i) == FALSE

\* the guard of the re-mapping of stage i (1-based)
RemapApplies(i) ==
  /\ settings_.projectStateInputEqualityConstraints
  /\ Len(constraintsProjection_[i].f) > 0

\* remap the tilde delta u to real delta u
RemapInputStep(deltaXSol, deltaUSol) ==
  [i \in 1 .. Len(deltaUSol) |->
     IF RemapApplies(i)
       THEN << RowTimes(constraintsProjection_[i].dfdu, deltaUSol[i])
                 + constraintsProjection_[i].f[1]
                 + constraintsProjection_[i].dfdx[1] * deltaXSol[i] >>
       ELSE deltaUSol[i]]

\* getOCPSolution succeeds; takeStep starts at alpha = 1 and enters the first
\* computePerformance
SolveQP ==
  /\ ~crashed /\ pc = "qp"
  /\ \E sx \in StepSet, su \in StepSet :
       LET dx == QPStepX(run.initState - run.x[1], sx)
           du == RemapInputStep(dx, QPStepU(su))
           r == [run EXCEPT !.dx = dx, !.du = du, !.k = 0]
       IN /\ run' = [r EXCEPT !.xNew = [i \in 1 .. Len(r.x) |-> r.x[i] + Scaled(dx[i], 0)],
                              !.uNew = [i \in 1 .. Len(r.u) |->
                                          IF Len(du[i]) > 0
                                            THEN << r.u[i][1] + Scaled(du[i][1], 0) >>
                                            ELSE <<>>]]
          /\ hist' = PassHist([hist EXCEPT !.nQP = @ + 1, !.nLS = @ + 1, !.nEval = 1,
                                           !.qpConstraints = QPConstraintArgument,
                                           !.deltaUSol = QPStepU(su),
                                           !.trial = NoTrial], HorizonN)
  /\ \E fault \in FaultSet(HorizonN) : BeginPass("perf", HorizonN, fault)
  /\ UNCHANGED << settings_, crashed, members >>

\* a failure that also withdraws the log entry of the failing iteration
QPFailureDropsEntry ==
  /\ ~crashed /\ pc = "qp"
  /\ Abort([hist EXCEPT !.nQP = @ + 1, !.qpConstraints = QPConstraintArgument], "qp")
  /\ performanceIndeces_' = SubSeq(performanceIndeces_, 1, Len(performanceIndeces_) - 1)
  /\ UNCHANGED << settings_, crashed, totalNumIterations_, primalSolution_, arrays >>

\* status != hpipm_status::SUCCESS: getOCPSolution throws
QPFailure ==
  /\ ~crashed /\ pc = "qp"
  /\ Abort([hist EXCEPT !.nQP = @ + 1, !.qpConstraints = QPConstraintArgument], "qp")
  /\ UNCHANGED << settings_, crashed, members >>

\* ----------------------------------------------------------------- takeStep
\* what the body of the do-while loop decides once computePerformance has
\* returned performanceNew for the trial at alpha_decay^k
TakeStepDecision(performanceNew) ==
  LET baseline == performanceIndeces_[Len(performanceIndeces_)]
      accepted == stepAccepted(performanceNew, baseline)
      below == stepSizeBelowTol(run.k, run.dx, run.du)
  IN IF accepted
       THEN [ accepted |-> TRUE, returns |-> TRUE,
              converged |-> below \/ improvementBelowTol(performanceNew, baseline),
              x |-> run.xNew, u |-> run.uNew ]
       ELSE IF below
              THEN [ accepted |-> FALSE, returns |-> TRUE, converged |-> TRUE,
                     x |-> run.x, u |-> run.u ]
              ELSE IF AboveAlphaMin(Decay(run.k))
                     THEN [ accepted |-> FALSE, returns |-> FALSE, converged |-> FALSE,
                            x |-> run.x, u |-> run.u ]
                     ELSE [ accepted |-> FALSE, returns |-> TRUE, converged |-> TRUE,
                            x |-> run.x, u |-> run.u ]

PerformanceNew == ReducePerformance(pass.performance, run.initState, run.xNew[1])

TrialRecord(performanceNew, d) ==
  [ valid |-> TRUE, k |-> run.k, eval |-> hist.nEval,
    performanceNew |-> performanceNew,
    baseline |-> performanceIndeces_[Len(performanceIndeces_)],
    accepted |-> d.accepted, returns |-> d.returns, converged |-> d.converged,
    dxNormSq |-> trajectoryNormSq([i \in 1 .. Len(run.dx) |-> <<run.dx[i]>>]),
    duNormSq |-> trajectoryNormSq(run.du),
    dx |-> run.dx, du |-> run.du,
    xBefore |-> run.x, uBefore |-> run.u, xAfter |-> d.x, uAfter |-> d.u ]

\* a loop without the break on convergence
LoopContinuesNoBreak(converged) == run.iter + 1 < settings_.sqpIteration

\* the loop condition of runImpl after iteration iter
LoopContinues(converged) == ~converged /\ run.iter + 1 < settings_.sqpIteration

\* the trial is rejected and alpha * alpha_decay > alpha_min: next trial
LineSearchRetry ==
  /\ ~crashed /\ pc = "parallel" /\ pass.kind = "perf" /\ AllDone
  /\ LET d == TakeStepDecision(PerformanceNew)
     IN /\ ~d.returns
        /\ run' = [run EXCEPT !.k = Decay(run.k),
                              !.xNew = TrialX(Decay(run.k)), !.uNew = TrialU(Decay(run.k))]
        /\ \E fault \in FaultSet(HorizonN) : BeginPass("perf", HorizonN, fault)
        /\ hist' = PassHist([hist EXCEPT !.nEval = @ + 1,
                                         !.trial = TrialRecord(PerformanceNew, d)], HorizonN)
  /\ UNCHANGED << settings_, crashed, members >>

\* takeStep returns and the loop goes on: totalNumIterations_++, next iteration
LineSearchReturn ==
  /\ ~crashed /\ pc = "parallel" /\ pass.kind = "perf" /\ AllDone
  /\ LET d == TakeStepDecision(PerformanceNew)
     IN /\ d.returns /\ LoopContinues(d.converged)
        /\ totalNumIterations_' = totalNumIterations_ + 1
        /\ run' = [run EXCEPT !.x = d.x, !.u = d.u, !.iter = @ + 1]
        /\ ResizeArrays(HorizonN)
        /\ \E fault \in FaultSet(HorizonN) : BeginPass("setup", HorizonN, fault)
        /\ hist' = PassHist([hist EXCEPT !.nSetup = @ + 1, !.converged = d.converged,
                                         !.deltaUSol = <<>>,
                                         !.trial = TrialRecord(PerformanceNew, d)], HorizonN)
  /\ UNCHANGED << settings_, crashed, performanceIndeces_, primalSolution_ >>

\* takeStep returns and the loop ends (converged, or iteration cap reached):
\* setPrimalSolution, and run returns
RunReturn ==
  /\ ~crashed /\ pc = "parallel" /\ pass.kind = "perf" /\ AllDone
  /\ LET d == TakeStepDecision(PerformanceNew)
     IN /\ d.returns /\ ~LoopContinues(d.converged)
        /\ totalNumIterations_' = totalNumIterations_ + 1
        /\ \E K \in (IF settings_.useFeedbackPolicy THEN GainSet ELSE {0}) :
             primalSolution_' = setPrimalSolution(run.time, d.x, d.u, K)
        /\ hist' = [hist EXCEPT !.nPrimal = @ + 1, !.converged = d.converged,
                                !.result = "ok", !.deltaUSol = <<>>,
                                !.trial = TrialRecord(PerformanceNew, d)]
  /\ pc' = "idle"
  /\ run' = NoRun
  /\ pass' = NoPass
  /\ wk' = [w \in Workers |-> IdleWorker]
  /\ UNCHANGED << settings_, crashed, performanceIndeces_, arrays >>

\* ------------------------------------------------------ reset and the log
\* a reset that keeps the log
resetKeepsLog ==
  /\ ~crashed /\ pc = "idle"
  /\ primalSolution_' = EmptyPrimalSolution
  /\ totalNumIterations_' = 0
  /\ hist' = [hist EXCEPT !.solved = FALSE, !.query = "none", !.result = "none",
                          !.escaped = "none", !.trial = NoTrial]
  /\ UNCHANGED << settings_, crashed, pc, performanceIndeces_, arrays, run, pass, wk >>

reset ==
  /\ ~crashed /\ pc = "idle"
  /\ primalSolution_' = EmptyPrimalSolution
  /\ performanceIndeces_' = <<>>
  /\ totalNumIterations_' = 0
  /\ hist' = [hist EXCEPT !.solved = FALSE, !.query = "none", !.result = "none",
                          !.escaped = "none", !.trial = NoTrial]
  /\ UNCHANGED << settings_, crashed, pc, arrays, run, pass, wk >>

\* what getIterationsLog does with the log it finds: "error" (it throws) or
\* "log" (it returns the log)
getIterationsLog(log) == IF Len(log) = 0 THEN "error" ELSE "log"

QueryIterationsLog ==
  /\ ~crashed /\ pc = "idle"
  /\ hist' = [hist EXCEPT !.query = getIterationsLog(performanceIndeces_)]
  /\ UNCHANGED << settings_, crashed, pc, members, run, pass, wk >>

\* ------------------------------------------------------------ specification
Next ==
  \/ \E initState \in InitStates, time \in GridsOf(settings_) : Run(initState, time)
  \/ \E initState \in InitStates, time \in GridsOf(settings_) : RunUndefined(initState, time)
  \/ \E initState \in InitStates, time \in GridsOf(settings_) : RunNoWorker(initState, time)
  \/ \E initState \in InitStates, time \in GridsOf(settings_) : RunNoIteration(initState, time)
  \/ \E w \in Workers : Fetch(w)
  \/ \E w \in Workers : Work(w)
  \/ \E w \in Workers : WorkThrow(w)
  \/ ThrowFromCaller
  \/ ThrowFromFuture
  \/ \E w \in Workers : StaleEnd(w)
  \/ \E w \in Workers : StaleClobber(w)
  \/ \E w \in Workers : StaleCrash(w)
  \/ SetupReturn
  \/ SolveQP
  \/ QPFailure
  \/ LineSearchRetry
  \/ LineSearchReturn
  \/ RunReturn
  \/ reset
  \/ QueryIterationsLog

Spec == Init /\ [][Next]_vars

\* ------------------------------------------------------------------- claims
PassComplete(kind) == pc = "parallel" /\ pass.kind = kind /\ AllDone

BothWorkersWorked ==
  /\ settings_.nThreads = 2
  /\ Len(wk[0].stages) > 0
  /\ Len(wk[1].stages) > 0

\* C1: in a parallel pass every stage index is handed out by the shared
\* counter to at most one worker, no two workers hold the same index, every
\* slot is written at most once, and when the pass has completed every index
\* 0..N-1 was handed out exactly once and (in setupQuadraticSubproblem) its
\* slots were written exactly once.
C1_StageClaimedOnce ==
  pc = "parallel" =>
    /\ \A i \in 0 .. HorizonN - 1 : hist.fetched[i] <= 1 /\ hist.writes[i] <= 1
    /\ \A v, w \in ActiveWorkers :
         (v # w /\ wk[v].pc = "work" /\ wk[w].pc = "work") => wk[v].i # wk[w].i
    /\ AllDone =>
         \A i \in 0 .. HorizonN - 1 :
           /\ hist.fetched[i] = 1
           /\ hist.writes[i] = IF pass.kind = "setup" THEN 1 ELSE 0

C1_Witness == PassComplete("setup") /\ BothWorkersWorked

\* the transcription pass as a single worker runs it: stages 0..N in order
RECURSIVE SequentialPerformance(_)
SequentialPerformance(i) ==
  IF i < 0 THEN ZeroPerformance
  ELSE PerfAdd(SequentialPerformance(i - 1), StageResult(i).performance)

SequentialTotal ==
  LET p == SequentialPerformance(HorizonN)
      q == [p EXCEPT !.stateEqConstraintISE = @ + Sq(run.initState - PassX[1])]
  IN [q EXCEPT !.merit = q.totalCost + q.inequalityConstraintPenalty]

\* C2: when a transcription pass has completed, for any number of workers and
\* any interleaving, the per-stage contents of dynamics_, cost_ and
\* constraints_ are those of the single-worker pass, every stage's performance
\* contribution was accumulated exactly once, and the total is the
\* single-worker total.
C2_ParallelEquivalence ==
  PassComplete("setup") =>
    /\ \A i \in 0 .. HorizonN - 1 : At(dynamics_, i) = StageResult(i).dynamics
    /\ \A i \in 0 .. HorizonN :
         /\ At(cost_, i) = StageResult(i).cost
         /\ At(constraints_, i) = StageResult(i).constraints
         /\ hist.accd[i] = 1
    /\ ReducePerformance(pass.performance, run.initState, run.x[1]) = SequentialTotal

C2_Witness ==
  /\ PassComplete("setup") /\ BothWorkersWorked
  /\ SequentialTotal.totalCost > 0
  /\ SequentialTotal.stateEqConstraintISE > 0

\* C3: once a provider's exception has left runParallel no worker of the pass
\* is still running, and an exception thrown during the transcription leaves
\* the iteration without a QP solve.
C3_SiblingsFinishedBeforeRethrow ==
  hist.escaped \in {"setup", "perf"} =>
    /\ \A w \in Workers : ~Running(w)
    /\ hist.escaped = "setup" => hist.nQP = hist.nSetup - 1

\* C4: after a run that the QP back-end's failure aborted, the stored
\* PrimalSolution is the one the run started with, no iteration followed the
\* failing one, no solution was built, and the log holds one entry per
\* iteration of the run up to and including the failing one and can be read.
C4_QPFailureKeepsSolution ==
  hist.escaped = "qp" =>
    /\ pc = "idle" /\ hist.result = "error"
    /\ primalSolution_ = hist.primalAtStart
    /\ hist.nPrimal = 0
    /\ hist.nQP = hist.nSetup /\ hist.nLS = hist.nSetup - 1
    /\ Len(performanceIndeces_) = hist.nSetup
    /\ getIterationsLog(performanceIndeces_) = "log"

C4_Witness ==
  /\ hist.escaped = "qp" /\ hist.runs = 2 /\ hist.nSetup = 2
  /\ primalSolution_ # EmptyPrimalSolution
  /\ Len(hist.logAtStart) = 1

\* C5: getIterationsLog raises an error when no run has been called since
\* construction or since the last reset, it never returns an empty log, and a
\* query that raises leaves the solver's members unchanged.
C5_LogQuery ==
  /\ [](/\ (hist.query # "none" /\ ~hist.solved) => hist.query = "error"
        /\ hist.query = "log" => Len(performanceIndeces_) > 0)
  /\ [][(hist.query # "error" /\ hist'.query = "error") => members' = members]_vars

C5_Witness ==
  /\ hist.query = "error" /\ ~hist.solved /\ hist.runs > 0

\* the squared violations and merits of the last trial of the line search
TrialNewSq == constraintViolationSq(hist.trial.performanceNew)

TrialBaseSq == constraintViolationSq(hist.trial.baseline)

TrialMeritBelowBaseline == hist.trial.performanceNew.merit < hist.trial.baseline.merit

\* M(P') < M(baseline) - gamma_c * theta(baseline)
\*   or theta(P') < (1 - gamma_c) * theta(baseline)
TrialMediumRule ==
  LET g == settings_.gamma_c
      d == hist.trial.baseline.merit - hist.trial.performanceNew.merit
  IN \/ d > 0 /\ g.num * g.num * TrialBaseSq < g.den * g.den * d * d
     \/ g.den * g.den * TrialNewSq < (g.den - g.num) * (g.den - g.num) * TrialBaseSq

\* C6 (as stated): a trial with theta(P') <= g_min is accepted iff
\* M(P') < M(baseline).
C6_Original ==
  (hist.trial.valid /\ TrialNewSq <= settings_.g_min * settings_.g_min) =>
    (hist.trial.accepted <=> TrialMeritBelowBaseline)

\* C6 (amended): a trial with theta(P') < g_min is accepted iff
\* M(P') < M(baseline); a trial with theta(P') = g_min falls under the
\* medium-violation rule.
C6_LowViolationRule ==
  hist.trial.valid =>
    /\ TrialNewSq < settings_.g_min * settings_.g_min =>
         (hist.trial.accepted <=> TrialMeritBelowBaseline)
    /\ TrialNewSq = settings_.g_min * settings_.g_min =>
         (hist.trial.accepted <=> TrialMediumRule)

C6_Witness ==
  /\ hist.trial.valid /\ hist.trial.accepted
  /\ TrialNewSq = settings_.g_min * settings_.g_min
  /\ ~TrialMeritBelowBaseline

\* C7: a trial with theta(P') > g_max is never accepted, and a trial with
\* g_min < theta(P') <= g_max is accepted iff the medium-violation rule holds.
C7_MediumAndHighViolationRule ==
  hist.trial.valid =>
    /\ TrialNewSq > settings_.g_max * settings_.g_max => ~hist.trial.accepted
    /\ ( /\ TrialNewSq > settings_.g_min * settings_.g_min
         /\ TrialNewSq <= settings_.g_max * settings_.g_max )
         => (hist.trial.accepted <=> TrialMediumRule)

C7_Witness ==
  /\ hist.trial.valid /\ hist.trial.accepted
  /\ TrialNewSq > settings_.g_min * settings_.g_min
  /\ TrialNewSq <= settings_.g_max * settings_.g_max

TrialZeroStepFeasible ==
  /\ hist.trial.valid /\ hist.trial.eval = 1
  /\ hist.trial.dxNormSq = 0 /\ hist.trial.duNormSq = 0
  /\ TrialBaseSq = 0

\* C8 (as stated): with a zero QP step and a feasible baseline the first trial
\* (alpha = 1) is accepted and the iteration reports convergence.
C8_Original ==
  TrialZeroStepFeasible => (hist.trial.accepted /\ hist.trial.converged)

\* C8 (amended): with a zero QP step and a feasible baseline the first trial
\* (alpha = 1) is not accepted, its merit being equal to the baseline's; the
\* line search returns on that first evaluation reporting convergence because
\* the step norms are below deltaTol, x and u are left as they were, and the
\* SQP loop ends in that iteration.
C8_ZeroStepConverges ==
  TrialZeroStepFeasible =>
    /\ ~hist.trial.accepted
    /\ hist.trial.performanceNew.merit = hist.trial.baseline.merit
    /\ hist.trial.returns /\ hist.trial.converged
    /\ hist.trial.xAfter = hist.trial.xBefore /\ hist.trial.uAfter = hist.trial.uBefore
    /\ pc = "idle" /\ hist.converged /\ hist.nEval = 1

C8_Witness == TrialZeroStepFeasible /\ hist.result = "ok" /\ hist.trial.baseline.merit > 0

\* C9: in a run the calls are ordered transcribe, solve QP, line search,
\* iteration by iteration, with at most sqpIteration iterations; nothing
\* follows the line search that reported convergence but the single
\* construction of the primal solution, which happens after the loop.
C9_LoopOrder ==
  /\ hist.nSetup <= settings_.sqpIteration
  /\ hist.nLS <= hist.nQP /\ hist.nQP <= hist.nSetup /\ hist.nSetup <= hist.nLS + 1
  /\ (pc = "parallel" /\ pass.kind = "setup") => (hist.nQP = hist.nSetup - 1)
  /\ pc = "qp" => (hist.nQP = hist.nSetup - 1 /\ hist.nLS = hist.nQP)
  /\ (pc = "parallel" /\ pass.kind = "perf") => (hist.nQP = hist.nSetup /\ hist.nLS = hist.nQP)
  /\ pc # "idle" => (~hist.converged /\ hist.nPrimal = 0)
  /\ hist.nPrimal <= 1
  /\ hist.result = "ok" =>
       /\ hist.nPrimal = 1
       /\ hist.nLS = hist.nSetup
       /\ hist.converged \/ hist.nLS = settings_.sqpIteration
  /\ hist.result = "error" => hist.nPrimal = 0

C9_Witness ==
  /\ hist.result = "ok" /\ hist.converged
  /\ hist.nLS = 1 /\ settings_.sqpIteration = 2

\* the number of step lengths alpha_decay^k above alpha_min
RECURSIVE TrialCapFrom(_)
TrialCapFrom(k) == IF AboveAlphaMin(k) THEN TrialCapFrom(k + 1) ELSE k

\* what is left of a run, most significant first: iterations of the SQP loop,
\* phases of the iteration (transcription, QP, line search), step lengths of
\* the line search, and steps of the workers of the pass in flight
RunRank ==
  << settings_.sqpIteration - run.iter,
     IF pc = "qp" THEN 1 ELSE IF pass.kind = "setup" THEN 2 ELSE 0,
     TrialCapFrom(0) - run.k,
     IF pc = "parallel"
       THEN (HorizonN + 1 + settings_.nThreads - pass.timeIndex)
              + Cardinality({w \in ActiveWorkers : Running(w)})
       ELSE 0 >>

\* the guards of the steps of a run in progress: a worker's step, the two
\* ways an exception leaves runParallel, the return of a completed pass, and
\* the outcome of the QP solve
RunStepGuard ==
  \/ pc = "parallel" /\ \E w \in ActiveWorkers : Running(w)
  \/ pc = "parallel" /\ wk[CallerId].pc = "threw"
  \/ pc = "parallel" /\ wk[CallerId].pc = "done" /\ \E j \in Helpers : RethrowingHelper(j)
  \/ pc = "parallel" /\ AllDone /\ pass.kind \in {"setup", "perf"}
  \/ pc = "qp"

RECURSIVE LexLess(_, _)
LexLess(a, b) ==
  /\ a # <<>>
  /\ \/ Head(a) < Head(b)
     \/ Head(a) = Head(b) /\ LexLess(Tail(a), Tail(b))

\* C10: a line search evaluates at most as many trials as there are step
\* lengths alpha_decay^k above alpha_min, and every run that was called
\* returns or raises: while a run is in progress the guard of one of its
\* steps holds, and every step either ends the run or strictly decreases a
\* lexicographic measure of the work left whose components never fall
\* below zero.
C10_RunTerminates ==
  /\ [](/\ hist.nEval <= TrialCapFrom(0)
        /\ pc # "idle" =>
             /\ ~crashed /\ RunStepGuard
             /\ \A j \in 1 .. Len(RunRank) : RunRank[j] >= 0)
  /\ [][pc # "idle" => (pc' = "idle" \/ LexLess(RunRank', RunRank))]_vars

C10_Witness ==
  /\ hist.result = "ok" /\ hist.nEval = TrialCapFrom(0) /\ hist.nLS = 2

\* a run was called and the solver was not reset since
RunCalled == hist.solved /\ hist.runs > 0

\* the previous calls left a solution to start from
SolutionAtStart == Len(hist.primalAtStart.timeTrajectory_) > 0

\* C11: a run called when no solution is stored (the very first call)
\* initialises every state x_i, i = 0..N, to initState; every other run sets
\* x_0 = initState and interpolates x_1..x_N from the state trajectory the
\* previous call left; every run call obtains such a trajectory.
C11_StateInitialisation ==
  RunCalled =>
    /\ Len(hist.xInit) = Len(hist.grid)
    /\ \A i \in 1 .. Len(hist.xInit) :
         hist.xInit[i] =
           IF i = 1 \/ ~SolutionAtStart THEN hist.initState
           ELSE Interpolate(hist.grid[i].time, hist.primalAtStart.timeTrajectory_,
                            hist.primalAtStart.stateTrajectory_)

\* C12: initializeInputTrajectory yields N inputs, one per stage 0..N-1: the
\* previous controller evaluated at (t_i, x_i) where t_i lies before the final
\* time of the previous solution, and the first input of the operating
\* trajectory elsewhere and on the first call.
C12_InputInitialisation ==
  RunCalled =>
    /\ Len(hist.uInit) = Len(hist.grid) - 1
    /\ \A i \in 1 .. Len(hist.uInit) :
         LET T == hist.primalAtStart.timeTrajectory_
         IN hist.uInit[i] =
              IF SolutionAtStart /\ hist.grid[i].time < T[Len(T)]
                THEN computeInput(hist.primalAtStart.controllerPtr_, T,
                                  hist.grid[i].time, hist.xInit[i])
                ELSE OperatingInput

\* a run returned normally and stored its solution
SolutionStored == hist.result = "ok"

\* the grid nodes i > 0 (1-based: j > 1) that are PreEvent nodes
PreEventNodes == {j \in 2 .. Len(hist.grid) : hist.grid[j].event = "PreEvent"}

\* C13: after a run that returned normally the stored time, state and input
\* trajectories each have N+1 entries, one per grid node; and whatever the
\* solver stores has the three lengths equal.
C13_TrajectoryLengths ==
  /\ Len(primalSolution_.stateTrajectory_) = Len(primalSolution_.timeTrajectory_)
  /\ Len(primalSolution_.inputTrajectory_) = Len(primalSolution_.timeTrajectory_)
  /\ SolutionStored => Len(primalSolution_.timeTrajectory_) = Len(hist.grid)

C13_Witness ==
  /\ SolutionStored /\ hist.nLS = 2
  /\ hist.trial.accepted /\ hist.trial.eval > 1

\* C14: in the solution a run stored, the input at every PreEvent node i > 0
\* equals the input at node i - 1.
C14_PreEventInputs ==
  SolutionStored =>
    \A j \in PreEventNodes :
      primalSolution_.inputTrajectory_[j] = primalSolution_.inputTrajectory_[j - 1]

C14_Witness ==
  /\ SolutionStored /\ Cardinality(PreEventNodes) = 2
  /\ hist.trial.valid /\ hist.trial.accepted
  /\ \E j \in PreEventNodes : hist.trial.uAfter[j] # primalSolution_.inputTrajectory_[j]

C17_NonPositiveThreadsActAsOne ==
  settings_.nThreads < 1 =>
    /\ ProviderClones = 1
    /\ hist.escaped # "noworker"
    /\ ~crashed

\* the workers that took the terminal stage N of the pass in flight
TerminalWorkers ==
  {w \in ActiveWorkers :
     \/ wk[w].pc \in {"work", "threw"} /\ wk[w].i = HorizonN
     \/ \E j \in 1 .. Len(wk[w].stages) : wk[w].stages[j] = HorizonN}

\* C18: in every parallel pass at most one worker takes the terminal stage N,
\* a worker that obtained a counter value above N processes nothing more, and
\* when the pass has completed stage N was processed exactly once (and its
\* slots written once in setupQuadraticSubproblem).
C18_TerminalStageOnce ==
  pc = "parallel" =>
    /\ Cardinality(TerminalWorkers) <= 1
    /\ hist.fetched[HorizonN] <= 1 /\ hist.writes[HorizonN] <= 1 /\ hist.accd[HorizonN] <= 1
    /\ \A w \in ActiveWorkers : wk[w].i > HorizonN => wk[w].pc = "done"
    /\ AllDone =>
         /\ Cardinality(TerminalWorkers) = 1
         /\ hist.fetched[HorizonN] = 1 /\ hist.accd[HorizonN] = 1
         /\ hist.writes[HorizonN] = IF pass.kind = "setup" THEN 1 ELSE 0

C18_Witness ==
  /\ PassComplete("setup") /\ settings_.nThreads = 2
  /\ \E w \in ActiveWorkers : wk[w].i > HorizonN /\ wk[w].stages = <<>>

\* a step in which runParallel returns normally: the pass in flight ends and
\* the calling thread goes on to the reduction
PassReturns ==
  /\ pc = "parallel" /\ hist'.escaped = "none"
  /\ \/ pc' # "parallel"
     \/ hist'.nSetup # hist.nSetup
     \/ hist'.nEval # hist.nEval

\* C19: runParallel returns normally only when the caller's task and every
\* helper's task have completed; the log entry of the pass is appended and
\* the QP back-end is called only when no worker is inside a task and every
\* stage of the pass has been written.
C19_ReturnAfterAllTasks ==
  /\ [](pc = "qp" =>
          /\ \A w \in Workers : wk[w].pc = "idle"
          /\ \A i \in 0 .. HorizonN : hist.writes[i] = 1)
  /\ [][PassReturns => \A w \in ActiveWorkers : wk[w].pc = "done"]_vars
  /\ [][Len(performanceIndeces_') > Len(performanceIndeces_) =>
          /\ \A w \in ActiveWorkers : wk[w].pc = "done"
          /\ \A i \in 0 .. HorizonN : hist.writes[i] = 1]_vars
  /\ [][hist'.nQP = hist.nQP + 1 =>
          (pc = "qp" /\ \A w \in Workers : wk[w].pc = "idle")]_vars

C19_Witness ==
  /\ pc = "qp" /\ settings_.nThreads = 2 /\ hist.nSetup = 2
  /\ \A i \in 0 .. HorizonN : hist.writes[i] = 1

\* the contribution of stage i (0-based) of the grid of the run in progress
\* at the trajectories x, u
StageContribution(x, u, i) ==
  IF i = HorizonN
    THEN computeTerminalPerformance(At(x, i))
    ELSE IF At(run.time, i).event = "PreEvent"
           THEN computeEventPerformance(FALSE, FALSE, At(x, i), At(x, i + 1))
           ELSE computeIntermediatePerformance(settings_.constraintPtr,
                                               At(x, i), At(x, i + 1), At(u, i))

\* the contributions of the stages 0..i, each once
RECURSIVE StageSum(_, _, _)
StageSum(x, u, i) ==
  IF i < 0 THEN ZeroPerformance
  ELSE PerfAdd(StageSum(x, u, i - 1), StageContribution(x, u, i))

\* the stage sum with the initial-state defect and the merit
ExpectedPerformance(x, u) ==
  LET p == StageSum(x, u, HorizonN)
  IN [p EXCEPT !.stateEqConstraintISE = @ + Sq(run.initState - x[1]),
               !.merit = p.totalCost + p.inequalityConstraintPenalty]

\* C20: the PerformanceIndex that setupQuadraticSubproblem returns (the entry
\* appended to the log) and the one computePerformance returns are the sum of
\* the contributions of the stages 0..N, each accumulated exactly once, plus
\* the initial-state defect in stateEqConstraintISE, with
\* merit = totalCost + inequalityConstraintPenalty.
C20_PerformanceIsStageSum ==
  /\ pc = "qp" =>
       performanceIndeces_[Len(performanceIndeces_)] = ExpectedPerformance(run.x, run.u)
  /\ PassComplete("perf") =>
       /\ PerformanceNew = ExpectedPerformance(run.xNew, run.uNew)
       /\ \A i \in 0 .. HorizonN : hist.accd[i] = 1
  /\ PassComplete("setup") => \A i \in 0 .. HorizonN : hist.accd[i] = 1

C20_Witness ==
  /\ PassComplete("perf") /\ BothWorkersWorked
  /\ PerformanceNew.totalCost > 0 /\ PerformanceNew.stateEqConstraintISE > 0
  /\ At(run.time, 1).event = "PreEvent"

\* the exit conditions of the last trial, from its recorded quantities
TrialStepBelowTol ==
  /\ Sq(AlphaNum(hist.trial.k)) * hist.trial.duNormSq
       < Sq(settings_.deltaTol) * Sq(AlphaDen(hist.trial.k))
  /\ Sq(AlphaNum(hist.trial.k)) * hist.trial.dxNormSq
       < Sq(settings_.deltaTol) * Sq(AlphaDen(hist.trial.k))

TrialImprovementBelowTol ==
  /\ Abs(hist.trial.baseline.merit - hist.trial.performanceNew.merit) < settings_.costTol
  /\ TrialNewSq < Sq(settings_.g_min)

\* the stages (1-based) at which the QP returned an input step
StagesWithInputStep == {i \in 1 .. Len(hist.trial.du) : Len(hist.trial.du[i]) > 0}

\* C21: when takeStep accepts the trial at alpha = alpha_decay^k it returns,
\* x is x + alpha * dx, u is u + alpha * du at every stage with an input step,
\* and it reports convergence exactly when both scaled step norms are below
\* deltaTol or (|M(baseline) - M(P')| < costTol and theta(P') < g_min); the
\* committed trajectories are what the run goes on with or stores.
C21_AcceptedStep ==
  (hist.trial.valid /\ hist.trial.accepted) =>
    /\ hist.trial.returns
    /\ hist.trial.xAfter =
         [i \in 1 .. Len(hist.trial.xBefore) |->
            hist.trial.xBefore[i] + Scaled(hist.trial.dx[i], hist.trial.k)]
    /\ \A i \in StagesWithInputStep :
         hist.trial.uAfter[i] =
           << hist.trial.uBefore[i][1] + Scaled(hist.trial.du[i][1], hist.trial.k) >>
    /\ hist.trial.converged <=> (TrialStepBelowTol \/ TrialImprovementBelowTol)
    /\ hist.converged = hist.trial.converged
    /\ (pc = "parallel" /\ pass.kind = "setup") => run.x = hist.trial.xAfter
    /\ SolutionStored => primalSolution_.stateTrajectory_ = hist.trial.xAfter

C21_Witness ==
  /\ hist.trial.valid /\ hist.trial.accepted /\ hist.trial.converged
  /\ TrialImprovementBelowTol /\ ~TrialStepBelowTol

\* alpha_decay^k <= alpha_min
AlphaAtOrBelowMin(k) ==
  Pow(settings_.alpha_decay.num, k) * settings_.alpha_min.den
    <= settings_.alpha_min.num * Pow(settings_.alpha_decay.den, k)

\* the last trial was rejected
TrialRejected == hist.trial.valid /\ ~hist.trial.accepted

\* C22: the n-th trial of a line search is made at alpha_decay^(n-1), and only
\* after the trial before it was rejected; a rejected trial leaves x and u as
\* they were on entry; takeStep returns on a rejected trial, reporting
\* convergence, exactly when both scaled step norms are below deltaTol or the
\* next step length is alpha_min or below, and otherwise goes on to the next
\* step length.
C22_RejectedTrials ==
  /\ hist.trial.valid => hist.trial.k = hist.trial.eval - 1
  /\ TrialRejected =>
       /\ hist.trial.xAfter = hist.trial.xBefore
       /\ hist.trial.uAfter = hist.trial.uBefore
       /\ hist.trial.returns <=>
            (TrialStepBelowTol \/ AlphaAtOrBelowMin(hist.trial.k + 1))
       /\ hist.trial.returns => hist.trial.converged
       /\ (pc = "parallel" /\ pass.kind = "setup") =>
            (run.x = hist.trial.xBefore /\ run.u = hist.trial.uBefore)
       /\ SolutionStored => primalSolution_.stateTrajectory_ = hist.trial.xBefore
  /\ (pc = "parallel" /\ pass.kind = "perf") =>
       /\ run.k = hist.nEval - 1
       /\ run.xNew = [i \in 1 .. Len(run.x) |-> run.x[i] + Scaled(run.dx[i], run.k)]
       /\ run.k > 0 =>
            /\ TrialRejected /\ ~hist.trial.returns
            /\ hist.trial.k = run.k - 1
            /\ run.x = hist.trial.xBefore /\ run.u = hist.trial.uBefore

C22_Witness ==
  /\ TrialRejected /\ hist.trial.returns /\ hist.trial.k = 1
  /\ ~TrialStepBelowTol
  /\ SolutionStored

\* C23: when takeStep accepts a step, at every stage i where the QP input
\* step du_i is empty (the event stages) the committed input u_i is the input
\* u_i held before the step.
C23_EventInputsKept ==
  (hist.trial.valid /\ hist.trial.accepted) =>
    \A i \in 1 .. Len(hist.trial.du) :
      Len(hist.trial.du[i]) = 0 => hist.trial.uAfter[i] = hist.trial.uBefore[i]

\* C24: the QP back-end is sized and solved with the assembled constraints if
\* and only if a constraint provider exists and
\* projectStateInputEqualityConstraints is off, and with a null constraint
\* argument in every other case; without a constraint provider the projection
\* is off.
C24_QPConstraintArgument ==
  /\ ~settings_.constraintPtr => ~settings_.projectStateInputEqualityConstraints
  /\ hist.nQP > 0 =>
       /\ hist.qpConstraints \in {"constraints", "null"}
       /\ hist.qpConstraints = "constraints" <=>
            (settings_.constraintPtr /\ ~settings_.projectStateInputEqualityConstraints)
  /\ hist.nQP = 0 => hist.qpConstraints = "none"

C24_Witness ==
  /\ hist.nQP = 2 /\ hist.qpConstraints = "null"
  /\ settings_.constraintPtr
  /\ pc = "parallel" /\ pass.kind = "perf"

\* the stages (1-based) of the run in progress that are PreEvent stages
PreEventStages == {i \in 1 .. HorizonN : run.time[i].event = "PreEvent"}

\* C25: after a successful QP solve the input step of stage i is
\* P_i.f + P_i.dfdu * du~_i + P_i.dfdx * dx_i if projection is enabled and
\* constraintsProjection_[i].f is non-empty, and the QP's own du_i otherwise;
\* at every PreEvent stage constraintsProjection_[i].f is empty and the step
\* is the QP's (empty) one.
C25_InputStepRemapped ==
  /\ (pc = "parallel" /\ pass.kind = "perf") =>
       \A i \in 1 .. HorizonN :
         LET P == constraintsProjection_[i]
         IN /\ ( settings_.projectStateInputEqualityConstraints /\ Len(P.f) > 0 ) =>
                 run.du[i] = << P.f[1] + RowTimes(P.dfdu, hist.deltaUSol[i])
                                  + P.dfdx[1] * run.dx[i] >>
            /\ ~( settings_.projectStateInputEqualityConstraints /\ Len(P.f) > 0 ) =>
                 run.du[i] = hist.deltaUSol[i]
  /\ (pc = "qp" \/ (pc = "parallel" /\ pass.kind = "perf")) =>
       \A i \in PreEventStages :
         /\ Len(constraintsProjection_[i].f) = 0
         /\ pc = "parallel" => (run.du[i] = <<>> /\ hist.deltaUSol[i] = <<>>)

C25_Witness ==
  /\ pc = "parallel" /\ pass.kind = "perf"
  /\ settings_.projectStateInputEqualityConstraints
  /\ PreEventStages # {}
  /\ \E i \in 1 .. HorizonN :
       /\ Len(constraintsProjection_[i].f) > 0
       /\ run.dx[i] # 0 /\ constraintsProjection_[i].f[1] # 0
       /\ run.du[i] # hist.deltaUSol[i]

\* the contribution of stage i (0-based) when the event stages consult the
\* worker's cost and constraint providers
ConsultedContribution(x, u, i) ==
  IF i < HorizonN /\ At(run.time, i).event = "PreEvent"
    THEN computeEventPerformance(TRUE, settings_.constraintPtr, At(x, i), At(x, i + 1))
    ELSE StageContribution(x, u, i)

RECURSIVE ConsultedSum(_, _, _)
ConsultedSum(x, u, i) ==
  IF i < 0 THEN ZeroPerformance
  ELSE PerfAdd(ConsultedSum(x, u, i - 1), ConsultedContribution(x, u, i))

ConsultedPerformance(x, u) ==
  LET p == ConsultedSum(x, u, HorizonN)
  IN [p EXCEPT !.stateEqConstraintISE = @ + Sq(run.initState - x[1]),
               !.merit = p.totalCost + p.inequalityConstraintPenalty]

\* C26: at every PreEvent stage i the transcription and the performance
\* evaluation consult the worker's cost provider and constraint provider for
\* the event: cost_[i] and constraints_[i] are the event cost and event
\* constraints of the providers, and the PerformanceIndex of a pass contains
\* their contribution.
C26_EventProvidersConsulted ==
  /\ PassComplete("setup") =>
       /\ \A i \in PreEventStages :
            LET e == setupEventNode(TRUE, settings_.constraintPtr, run.x[i], run.x[i + 1])
            IN cost_[i] = e.cost /\ constraints_[i] = e.constraints
       /\ ReducePerformance(pass.performance, run.initState, run.x[1])
            = ConsultedPerformance(run.x, run.u)
  /\ PassComplete("perf") => PerformanceNew = ConsultedPerformance(run.xNew, run.uNew)

\* C27: between the calls, whatever run calls (returning or aborting) and
\* reset calls came before, totalNumIterations_ > 0 implies that the stored
\* PrimalSolution has a non-empty time and state trajectory and a controller,
\* and no run starts its warm start from an empty solution.
C27_WarmStartHasSolution ==
  /\ (pc = "idle" /\ totalNumIterations_ > 0) =>
       /\ Len(primalSolution_.timeTrajectory_) > 0
       /\ Len(primalSolution_.stateTrajectory_) > 0
       /\ primalSolution_.controllerPtr_.type # "null"
  /\ hist.escaped # "warmstart"

\* the last entry of the iteration log
LastLogEntry == performanceIndeces_[Len(performanceIndeces_)]

\* C28: after a run that returned normally the log holds exactly one entry
\* per SQP iteration executed in that run; the entry of an iteration is the
\* performance of the iterate (x, u) that iteration started from, the
\* baseline of its line search, and is not rewritten afterwards: within a run
\* the log only grows, by one entry per transcription, after being emptied at
\* the start of the run.
C28_LogHoldsBaselines ==
  /\ [](/\ SolutionStored =>
             /\ Len(performanceIndeces_) = hist.nLS
             /\ hist.trial.valid => LastLogEntry = hist.trial.baseline
        /\ pc = "qp" =>
             /\ Len(performanceIndeces_) = run.iter + 1
             /\ LastLogEntry = ExpectedPerformance(run.x, run.u)
        /\ (pc = "parallel" /\ pass.kind = "perf") =>
             /\ Len(performanceIndeces_) = run.iter + 1
             /\ LastLogEntry = ExpectedPerformance(run.x, run.u)
        /\ (pc = "parallel" /\ pass.kind = "setup") => Len(performanceIndeces_) = run.iter)
  /\ [][performanceIndeces_' # performanceIndeces_ =>
          \/ performanceIndeces_' = <<>> /\ pc = "idle"
          \/ /\ pc = "parallel" /\ pass.kind = "setup" /\ pc' = "qp"
             /\ Len(performanceIndeces_') = Len(performanceIndeces_) + 1
             /\ SubSeq(performanceIndeces_', 1, Len(performanceIndeces_)) = performanceIndeces_
       ]_vars

C28_Witness ==
  /\ SolutionStored /\ hist.runs = 2 /\ Len(hist.logAtStart) = 2
  /\ Len(performanceIndeces_) = 2
  /\ hist.trial.accepted /\ hist.trial.performanceNew # LastLogEntry
  /\ performanceIndeces_[1] # performanceIndeces_[2]
  /\ performanceIndeces_ # hist.logAtStart

\* C29: with a QP back-end that returns dx_0 = delta_x0, the first state of
\* the iterate of every SQP iteration, of every trial of the line search and
\* of the stored PrimalSolution is the initState passed to run, the delta_x0
\* handed to the QP is zero, and the initial-state defect adds nothing to the
\* stateEqConstraintISE of a PerformanceIndex.
C29_FirstStateIsInitState ==
  /\ pc # "idle" => run.x[1] = run.initState
  /\ (pc = "parallel" /\ pass.kind = "perf") =>
       (run.dx[1] = 0 /\ run.xNew[1] = run.initState)
  /\ pc = "qp" =>
       LastLogEntry.stateEqConstraintISE
         = StageSum(run.x, run.u, HorizonN).stateEqConstraintISE
  /\ PassComplete("perf") =>
       PerformanceNew.stateEqConstraintISE
         = StageSum(run.xNew, run.uNew, HorizonN).stateEqConstraintISE
  /\ SolutionStored => primalSolution_.stateTrajectory_[1] = hist.initState

C29_Witness ==
  /\ SolutionStored /\ hist.runs = 2 /\ SolutionAtStart
  /\ hist.primalAtStart.stateTrajectory_[1] # hist.initState
  /\ hist.nLS = 2 /\ hist.trial.valid /\ hist.trial.accepted

\* C30: whenever a run has built its primal solution, at least one
\* transcription and one successful QP solve were executed earlier in the
\* same run and the iteration log is not empty after the run, for every value
\* of sqpIteration; and no run reaches setPrimalSolution with nothing for it
\* to read.
C30_SolutionFollowsAnIteration ==
  /\ SolutionStored =>
       /\ hist.nSetup >= 1 /\ hist.nLS >= 1
       /\ Len(performanceIndeces_) > 0
       /\ getIterationsLog(performanceIndeces_) = "log"
  /\ hist.escaped # "noiteration"
  /\ ~LoopEntered => ~crashed

====
